---- MODULE Spec2Model ----
(***************************************************************************)
(* Automated Mailer: the batch mail-merge and delivery pipeline of app.py  *)
(* (fill_template, the three send pages, their send_all workers) and the   *)
(* validation gate of valid_email.py.                                      *)
(*                                                                         *)
(* Text is modelled as a sequence of one-character strings, so that        *)
(* str.format_map is modelled by the scanner it runs, not as the identity. *)
(***************************************************************************)
EXTENDS Integers, Sequences, FiniteSets, TLC

VARIABLES
    flow,           \* the send page in use: "constant", "dynamic" or "api"
    df,             \* BaseSendPage.df: the loaded dataset, NoDf for None
    email_col_var,  \* text of the "Email column name" entry
    subject_var,    \* text of the Subject entry
    body_txt,       \* text of the body box
    id_col_var,     \* ApiSendPage: text of the "ID column" entry
    simulate_var,   \* ApiSendPage: the "Simulate API" checkbox
    check,          \* the module-level flag set by the "Verify Mail Address" switch
    smtp_settings,  \* App.smtp_settings, the dict every send reads
    runs,           \* the _worker threads send_all has started, by start order
    last,           \* what the step just taken did with a row, NoRow if it handled none
    log,            \* the lines LogArea.write has been called with, in call order
    reported,       \* what the step just taken reported, if it was a send_all call
    tplIn,      \* fill_template: the template argument
    tplRow,     \* fill_template: the row argument
    tplOut,     \* fill_template: what the call returned or that it raised
    tplPc,      \* "call" before fill_template is applied, "done" after
    gateIn,     \* is_email_valid: what requests.get returned
    gateOut,    \* is_email_valid: what the call returned or that it raised
    gatePc,     \* "call" before is_email_valid is applied, "done" after
    simId,      \* _fetch_attendance in simulation: the id of the first call
    simOther,   \* the id of the second call
    simOut,     \* what the first call returned
    simOtherOut,\* what the second call returned
    simPc,      \* "first", "second", "done"
    widget,     \* the LogArea text widget: its state option and its lines
    writer,     \* the LogArea.write call each thread is in, and how far it got
    inserted    \* the lines whose insert was issued since the last clear

tplVars == <<tplIn, tplRow, tplOut, tplPc>>
gateVars == <<gateIn, gateOut, gatePc>>
simVars == <<simId, simOther, simOut, simOtherOut, simPc>>
logVars == <<widget, writer, inserted>>
auxVars == <<tplVars, gateVars, simVars, logVars>>
cfgVars == <<email_col_var, subject_var, body_txt, id_col_var, simulate_var, check, smtp_settings>>
mainVars == <<flow, df, cfgVars, runs, last, log, reported>>
vars == <<mainVars, auxVars>>

(***************************************************************************)
(* Bounds                                                                  *)
(***************************************************************************)
MaxTplLen == 4
MaxRows == 2
MaxIdLen == 2
MaxWrites == 2

(***************************************************************************)
(* fill_template (app.py 76-81)                                            *)
(***************************************************************************)
\* pandas' missing-value marker, as pd.isna(v) sees it
NaN == <<"NaN">>

\* The characters templates are built from: braces, a column-name letter, a
\* digit, the attribute dot, the conversion mark and the conversion letter r.
TplChars == {"{", "}", "n", "0", ".", "!", "r"}

\* The characters that end a field name in str.format_map's field parser
FieldStops == {"}", ":", "!", "{"}

\* Outcome of a call that may raise
Raised == [raised |-> TRUE, out |-> <<>>]
Returned(o) == [raised |-> FALSE, out |-> o]

\* SafeDict({k: ("" if pd.isna(v) else str(v)) ...}) with __missing__ -> ""
SafeDict(row, key) ==
    IF key \in DOMAIN row
    THEN (IF row[key] = NaN THEN <<>> ELSE row[key])
    ELSE <<>>

\* Index of the first character at or after j that ends the field name,
\* Len(t) + 1 when the template ends first.
RECURSIVE FieldEnd(_, _)
FieldEnd(t, j) ==
    IF j > Len(t) THEN j
    ELSE IF t[j] \in FieldStops THEN j
    ELSE FieldEnd(t, j + 1)

\* Index of the first "." of a field name, Len(name) + 1 when there is none
RECURSIVE DotAt(_, _)
DotAt(name, k) ==
    IF k > Len(name) THEN k
    ELSE IF name[k] = "." THEN k
    ELSE DotAt(name, k + 1)

\* A field whose first part is empty or all digits is positional
IsPositional(first) == \A k \in 1..Len(first) : first[k] = "0"

\* One replacement field: name lookup, attribute suffix, conversion.
\* format_map has no positional arguments; str has no attribute spelled
\* with the letters of TplChars, so any attribute suffix raises.
FormatField(name, conv, row) ==
    LET d     == DotAt(name, 1)
        first == SubSeq(name, 1, d - 1)
    IN  IF IsPositional(first) THEN Raised
        ELSE IF d <= Len(name) THEN Raised
        ELSE IF conv = "" THEN Returned(SafeDict(row, first))
        ELSE IF conv = "r" THEN Returned(<<"'">> \o SafeDict(row, first) \o <<"'">>)
        ELSE Raised

\* str.format_map's scan of the template from position i, out being the
\* text produced so far.
RECURSIVE Scan(_, _, _, _)
Scan(t, i, row, out) ==
    IF i > Len(t) THEN Returned(out)
    ELSE IF t[i] = "}" THEN
        IF i + 1 <= Len(t) /\ t[i + 1] = "}"
        THEN Scan(t, i + 2, row, Append(out, "}"))
        ELSE Raised                       \* Single '}' encountered
    ELSE IF t[i] # "{" THEN Scan(t, i + 1, row, Append(out, t[i]))
    ELSE IF i + 1 > Len(t) THEN Raised    \* Single '{' encountered
    ELSE IF t[i + 1] = "{" THEN Scan(t, i + 2, row, Append(out, "{"))
    ELSE
        LET j    == FieldEnd(t, i + 1)
            name == SubSeq(t, i + 1, j - 1)
        IN  IF j > Len(t) THEN Raised     \* expected '}' before end of string
            ELSE IF t[j] = "{" THEN Raised \* unexpected '{' in field name
            ELSE IF t[j] = "}" THEN
                LET f == FormatField(name, "", row)
                IN  IF f.raised THEN Raised ELSE Scan(t, j + 1, row, out \o f.out)
            ELSE IF t[j] = "!" THEN
                IF j + 2 > Len(t) THEN Raised
                ELSE IF t[j + 2] # "}" THEN Raised
                ELSE LET f == FormatField(name, t[j + 1], row)
                     IN  IF f.raised THEN Raised ELSE Scan(t, j + 3, row, out \o f.out)
            ELSE Raised                   \* a format spec: not in TplChars

fill_template(template, row) == Scan(template, 1, row, <<>>)

(***************************************************************************)
(* Text helpers                                                            *)
(***************************************************************************)
\* All sequences over S of length at most n
RECURSIVE SeqsUpTo(_, _)
SeqsUpTo(S, n) ==
    IF n = 0 THEN {<<>>}
    ELSE LET shorter == SeqsUpTo(S, n - 1)
         IN  shorter \cup {Append(s, c) : s \in {x \in shorter : Len(x) = n - 1}, c \in S}

\* str.strip(): drop leading and trailing blanks
RECURSIVE Strip(_)
Strip(s) ==
    IF s = <<>> THEN s
    ELSE IF Head(s) = " " THEN Strip(Tail(s))
    ELSE IF s[Len(s)] = " " THEN Strip(SubSeq(s, 1, Len(s) - 1))
    ELSE s

\* Python's  sub in s  on text
Contains(s, sub) ==
    \E i \in 1..(Len(s) - Len(sub) + 1) : SubSeq(s, i, i + Len(sub) - 1) = sub

(***************************************************************************)
(* Datasets (what pick_file loads)                                         *)
(***************************************************************************)
EmailCol == <<"e", "m", "a", "i", "l">>
IdCol    == <<"i", "d">>
NameCol  == <<"n">>

GoodAddr == <<"a", "@", "x">>
BadAddr  == <<"b", "a", "d">>

\* The rows of the sheets: an even id with a deliverable address and a name,
\* an odd id with an undeliverable address and an empty name cell.
RowA == (EmailCol :> GoodAddr) @@ (IdCol :> <<"1", "0", "2">>) @@ (NameCol :> <<"A">>)
RowB == (EmailCol :> BadAddr)  @@ (IdCol :> <<"1", "0", "1">>) @@ (NameCol :> NaN)

\* A sheet of n rows: RowA, RowB, RowA, ...
Sheet(n) == [i \in 1..n |-> IF i % 2 = 1 THEN RowA ELSE RowB]

AllColumns == {EmailCol, IdCol, NameCol}

NoDf == [loaded |-> FALSE, columns |-> {}, rows |-> <<>>]

Loaded(columns, sheet) ==
    [loaded |-> TRUE, columns |-> columns,
     rows |-> [i \in 1..Len(sheet) |-> [k \in columns |-> sheet[i][k]]]]

\* The files pick_file can load: sheets of up to MaxRows rows with every
\* column, and full sheets without an email column or without an id column.
Datasets ==
    {Loaded(AllColumns, Sheet(n)) : n \in 0..MaxRows}
        \cup {Loaded(AllColumns \ {EmailCol}, Sheet(MaxRows)),
              Loaded(AllColumns \ {IdCol}, Sheet(MaxRows))}

\* What the address-verification service knows about an address
Deliverability(addr) == IF addr = GoodAddr THEN "DELIVERABLE" ELSE "UNDELIVERABLE"

(***************************************************************************)
(* Validation gate (valid_email.py)                                        *)
(***************************************************************************)
\* What requests.get can give is_email_valid for an address: no response at
\* all (the call raises), or a status with a body.  body is "object" for a
\* JSON object, "nonobject" for other JSON, "notjson" otherwise.
ValidationResponses(addr) ==
    { [neterr |-> TRUE,  status |-> 0,   body |-> "notjson", deliverability |-> "missing"],
      [neterr |-> FALSE, status |-> 422, body |-> "object",  deliverability |-> "missing"],
      [neterr |-> FALSE, status |-> 500, body |-> "notjson", deliverability |-> "missing"],
      [neterr |-> FALSE, status |-> 200, body |-> "notjson", deliverability |-> "missing"],
      [neterr |-> FALSE, status |-> 200, body |-> "object",  deliverability |-> "missing"],
      [neterr |-> FALSE, status |-> 200, body |-> "object",  deliverability |-> Deliverability(addr)] }

\* is_email_valid: "None", "True" or "False", or the call raises
is_email_valid(response) ==
    IF response.neterr THEN Raised
    ELSE IF response.status = 422 THEN Returned("None")
    ELSE IF response.status # 200 THEN Returned("None")
    ELSE IF response.body # "object" THEN Raised
    ELSE IF (IF response.deliverability = "missing" THEN "UNDELIVERABLE"
             ELSE response.deliverability) = "DELIVERABLE"
         THEN Returned("True")
         ELSE Returned("False")

\* Python's  not ok  on is_email_valid's result
NotOk(ok) == ok \in {"None", "False"}

(***************************************************************************)
(* Transport                                                               *)
(***************************************************************************)
RequiredKeys == {"sender_email", "app_password", "smtp_host", "smtp_port"}

\* send_email_smtp: int(smtp_port) raises on an empty port before any
\* connection; otherwise the SMTP session succeeds or raises.
send_email_smtp(settings, smtp) ==
    IF settings["smtp_port"] = "" THEN Raised
    ELSE IF smtp = "ok" THEN Returned(<<>>)
    ELSE Raised

SmtpOutcomes == {"ok", "error"}

(***************************************************************************)
(* Enrichment (ApiSendPage._fetch_attendance)                              *)
(***************************************************************************)
AbsentKey == <<"a", "b", "s", "e", "n", "t">>
DateKey   == <<"d", "a", "t", "e">>
TrueText  == <<"T", "r", "u", "e">>
FalseText == <<"F", "a", "l", "s", "e">>
SimDate   == <<"2", "0", "2", "5", "-", "0", "8", "-", "2", "3">>

Digits == <<"0", "1", "2", "3", "4", "5", "6", "7", "8", "9">>

\* int(c) for one character: [raised, out]
IntOfChar(c) ==
    IF \E d \in 1..10 : Digits[d] = c
    THEN Returned((CHOOSE d \in 1..10 : Digits[d] = c) - 1)
    ELSE Raised

\* What requests.get can give the live enrichment call
LiveResponses ==
    { [neterr |-> TRUE,  status |-> 0,   body |-> "notjson",   absent |-> "missing"],
      [neterr |-> FALSE, status |-> 404, body |-> "object",    absent |-> "true"],
      [neterr |-> FALSE, status |-> 304, body |-> "object",    absent |-> "true"],
      [neterr |-> FALSE, status |-> 200, body |-> "notjson",   absent |-> "missing"],
      [neterr |-> FALSE, status |-> 200, body |-> "nonobject", absent |-> "missing"],
      [neterr |-> FALSE, status |-> 200, body |-> "object",    absent |-> "missing"],
      [neterr |-> FALSE, status |-> 200, body |-> "object",    absent |-> "false"],
      [neterr |-> FALSE, status |-> 200, body |-> "object",    absent |-> "true"] }

NoResponse == [neterr |-> FALSE, status |-> 0, body |-> "none", absent |-> "missing"]

\* The dict _fetch_attendance returns: isdict is FALSE for JSON that is not
\* an object; fields are the keys it carries, as text.
Payload(isdict, absent, fields) == [isdict |-> isdict, absent |-> absent, fields |-> fields]

\* Response.raise_for_status raises for 4xx and 5xx only
RaiseForStatus(status) == status >= 400 /\ status < 600

\* _fetch_attendance with int(str(student_id)) in place of
\* int(str(student_id)[-1]): an id that is not a number throughout falls
\* to n = 1
_fetch_attendance_WholeId(student_id, simulate, response) ==
    IF simulate THEN
        LET numeric == student_id # <<>>
                          /\ \A k \in 1..Len(student_id) : ~IntOfChar(student_id[k]).raised
            n      == IF numeric THEN IntOfChar(student_id[Len(student_id)]).out ELSE 1
            absent == (n % 2 = 1)
        IN  Returned(Payload(TRUE, IF absent THEN "true" ELSE "false",
                             (AbsentKey :> (IF absent THEN TrueText ELSE FalseText))
                                @@ (DateKey :> SimDate)))
    ELSE IF response.neterr THEN Raised
    ELSE IF RaiseForStatus(response.status) THEN Raised
    ELSE IF response.body = "notjson" THEN Raised
    ELSE IF response.body = "nonobject" THEN Returned(Payload(FALSE, "missing", <<>>))
    ELSE Returned(Payload(TRUE, response.absent,
                          IF response.absent = "missing" THEN <<>>
                          ELSE (AbsentKey :> (IF response.absent = "true" THEN TrueText
                                              ELSE FalseText))))

_fetch_attendance(student_id, simulate, response) ==
    IF simulate THEN
        LET parsed == IF student_id = <<>> THEN Raised
                      ELSE IntOfChar(student_id[Len(student_id)])
            n      == IF parsed.raised THEN 1 ELSE parsed.out
            absent == (n % 2 = 1)
        IN  Returned(Payload(TRUE, IF absent THEN "true" ELSE "false",
                             (AbsentKey :> (IF absent THEN TrueText ELSE FalseText))
                                @@ (DateKey :> SimDate)))
    ELSE IF response.neterr THEN Raised
    ELSE IF RaiseForStatus(response.status) THEN Raised
    ELSE IF response.body = "notjson" THEN Raised
    ELSE IF response.body = "nonobject" THEN Returned(Payload(FALSE, "missing", <<>>))
    ELSE Returned(Payload(TRUE, response.absent,
                          IF response.absent = "missing" THEN <<>>
                          ELSE (AbsentKey :> (IF response.absent = "true" THEN TrueText
                                              ELSE FalseText))))

(***************************************************************************)
(* _compose of the three pages                                             *)
(***************************************************************************)
Message(subject, body) == [subject |-> subject, body |-> body]

SkipSubject == <<"s", "k", "i", "p">>
SkipBody    == <<" ", "S", "k", "i", "p">>

ConstantCompose(subject, body) == Returned(Message(Strip(subject), Strip(body)))

DynamicCompose(subject, body, row) ==
    LET s == fill_template(Strip(subject), row)
        b == fill_template(Strip(body), row)
    IN  IF s.raised \/ b.raised THEN Raised ELSE Returned(Message(s.out, b.out))

\* data.get("absent", False) on the dict; a non-dict has no get
ApiCompose(subject, body, idcol, simulate, row, response) ==
    LET sid_col == Strip(idcol)
    IN  IF sid_col \notin DOMAIN row THEN Raised
        ELSE LET data == _fetch_attendance(row[sid_col], simulate, response)
             IN  IF data.raised THEN Raised
                 ELSE IF ~data.out.isdict THEN Raised
                 ELSE IF data.out.absent # "true" THEN Returned(Message(SkipSubject, SkipBody))
                 ELSE DynamicCompose(subject, body, data.out.fields @@ row)

(***************************************************************************)
(* Page defaults (the constructors of the three pages)                     *)
(***************************************************************************)
Flows == {"constant", "dynamic", "api"}

DefaultSubject(f) ==
    IF f = "constant" THEN <<"U", "p">>
    ELSE IF f = "dynamic" THEN <<"R", " ", "{", "n", "}">>
    ELSE <<"A", " ", "{", "n", "}">>

DefaultBody(f) ==
    IF f = "constant" THEN <<"H", "i">>
    ELSE IF f = "dynamic" THEN <<"H", "i", " ", "{", "n", "}">>
    ELSE <<"O", "n", " ", "{", "d", "a", "t", "e", "}">>

\* What the user can type into the subject entry and the body box
SubjectChoices(f) == {DefaultSubject(f), <<"{", "n">>}

\* What the user can type into the email-column entry (a sheet without the
\* column gives the case of a name that is not found)
EmailColChoices == {EmailCol, <<" ">> \o EmailCol \o <<" ">>}

\* App.__init__: the built-in settings, sender and password still empty
DefaultSettings ==
    [k \in RequiredKeys |->
        IF k = "smtp_host" THEN "smtp.gmail.com"
        ELSE IF k = "smtp_port" THEN "587" ELSE ""]

\* Settings with every field filled: saved in the dialog, or loaded from
\* config.secure by App.__init__
FullSettings ==
    [k \in RequiredKeys |->
        IF k = "sender_email" THEN "me@x.com"
        ELSE IF k = "app_password" THEN "secret"
        ELSE IF k = "smtp_host" THEN "smtp.gmail.com" ELSE "587"]

\* What the settings dialog can save: every field filled, the credentials
\* left empty, the host left empty, the port left empty
SettingsChoices ==
    {FullSettings, DefaultSettings,
     [FullSettings EXCEPT !["smtp_host"] = ""], [FullSettings EXCEPT !["smtp_port"] = ""]}

(***************************************************************************)
(* Workers and the log                                                     *)
(***************************************************************************)
\* The worker threads that can be alive together, and the one thread the
\* specification of the whole surface follows
RunIds == {1, 2}
OneRun == {1}

NoCount == -1

OutcomeLine(r, kind, i) ==
    [run |-> r, kind |-> kind, row |-> i,
     sent |-> NoCount, skipped |-> NoCount, failed |-> NoCount, total |-> NoCount]

\* "Done. {success}/{total} sent."
BaseSummaryLine(r, success, total) ==
    [run |-> r, kind |-> "Done", row |-> 0,
     sent |-> success, skipped |-> NoCount, failed |-> NoCount, total |-> total]

\* "Done. Sent: {success} | Skipped (not absent): {skipped} | Total rows: {total}"
ApiSummaryLine(r, success, skipped, total) ==
    [run |-> r, kind |-> "Done", row |-> 0,
     sent |-> success, skipped |-> skipped, failed |-> NoCount, total |-> total]

\* What a worker did with the row it handled last: whether the toggle was
\* on, what the gate answered ("none" when it was not asked), what the
\* enrichment call received, whether send_email_smtp was called.
NoRow ==
    [run |-> 0, row |-> 0, kind |-> "none", to |-> <<>>, checkOn |-> FALSE, gate |-> "none",
     simulate |-> FALSE, response |-> NoResponse, included |-> "none", delivered |-> FALSE]

\* What a send_all call did: the errors it showed, the worker it started
NoReport == [called |-> FALSE, errors |-> 0, started |-> 0]
Report(errors, started) == [called |-> TRUE, errors |-> errors, started |-> started]

IdleRun ==
    [pc |-> "idle", rows |-> <<>>, email_col |-> <<>>, idx |-> 0,
     success |-> 0, skipped |-> 0, total |-> 0]

\* threading.Thread(target=_worker).start(): the closure holds email_col and
\* iterates the dataset that was loaded when it started
StartedRun(email_col) ==
    [IdleRun EXCEPT !.pc = "running", !.rows = df.rows, !.email_col = email_col,
                    !.total = Len(df.rows)]

Idle(r) == runs[r].pc = "idle"
Running(r) == runs[r].pc = "running"

(***************************************************************************)
(* send_all: the precondition checks (app.py 293-305 and 431-443)          *)
(***************************************************************************)
Missing(settings) == {k \in RequiredKeys : settings[k] = ""}

\* send_all_checks without the check of the transport settings
send_all_checks_NoSettingsCheck(d, email_col, settings) ==
    IF ~d.loaded THEN [errors |-> 1, start |-> FALSE]
    ELSE IF email_col \notin d.columns THEN [errors |-> 1, start |-> FALSE]
    ELSE [errors |-> 0, start |-> TRUE]

\* The three checks in order, each reporting one error and returning;
\* start tells whether the worker thread is created.
send_all_checks(d, email_col, settings) ==
    IF ~d.loaded THEN [errors |-> 1, start |-> FALSE]
    ELSE IF email_col \notin d.columns THEN [errors |-> 1, start |-> FALSE]
    ELSE IF Missing(settings) # {} THEN [errors |-> 1, start |-> FALSE]
    ELSE [errors |-> 0, start |-> TRUE]

send_all(slots) ==
    LET email_col == Strip(email_col_var)
        c == send_all_checks(df, email_col, smtp_settings)
    IN  IF ~c.start
        THEN /\ reported' = Report(c.errors, 0)
             /\ UNCHANGED <<runs, log>>
        ELSE /\ \E r \in slots :
                   /\ Idle(r)
                   /\ \A q \in slots : q < r => ~Idle(q)
                   /\ runs' = [runs EXCEPT ![r] = StartedRun(email_col)]
                   /\ reported' = Report(c.errors, r)
             /\ UNCHANGED log

BaseSendAll(slots) ==
    /\ flow \in {"constant", "dynamic"}
    /\ send_all(slots)
    /\ last' = NoRow
    /\ UNCHANGED <<flow, df, cfgVars>>
    /\ UNCHANGED auxVars

ApiSendAll(slots) ==
    /\ flow = "api"
    /\ send_all(slots)
    /\ last' = NoRow
    /\ UNCHANGED <<flow, df, cfgVars>>
    /\ UNCHANGED auxVars

(***************************************************************************)
(* The per-row body of the workers                                         *)
(***************************************************************************)
RowDone(i, to, kind, checkOn, gate, simulate, response, included, delivered) ==
    [run |-> 0, row |-> i, kind |-> kind, to |-> to, checkOn |-> checkOn, gate |-> gate,
     simulate |-> simulate, response |-> response, included |-> included,
     delivered |-> delivered]

BaseCompose(f, subject, body, row) ==
    IF f = "constant" THEN ConstantCompose(subject, body)
    ELSE DynamicCompose(subject, body, row)

\* BaseSendPage.send_all._worker, one pass of the loop body (app.py 311-323)
BaseRow(f, i, row, to, subject, body, checkOn, settings, validation, smtp) ==
    LET msg == BaseCompose(f, subject, body, row)
        ok  == is_email_valid(validation)
        Res(kind, gate, delivered) ==
            RowDone(i, to, kind, checkOn, gate, FALSE, NoResponse, "none", delivered)
    IN  IF msg.raised THEN Res("Failed", "none", FALSE)
        ELSE IF checkOn /\ ok.raised THEN Res("Failed", "none", FALSE)
        ELSE IF checkOn /\ NotOk(ok.out) THEN Res("Skipped", ok.out, FALSE)
        ELSE IF send_email_smtp(settings, smtp).raised
             THEN Res("Failed", IF checkOn THEN ok.out ELSE "none", TRUE)
             ELSE Res("Sent", IF checkOn THEN ok.out ELSE "none", TRUE)

\* What the enrichment call decided for the row: "true" or "false" for the
\* absent flag of the dict it returned, "missing" when the dict has no such
\* key, "none" when no dict came back
Included(idcol, simulate, row, response) ==
    IF Strip(idcol) \notin DOMAIN row THEN "none"
    ELSE LET data == _fetch_attendance(row[Strip(idcol)], simulate, response)
         IN  IF data.raised \/ ~data.out.isdict THEN "none" ELSE data.out.absent

\* ApiRow with the skip test comparing the subject with "Skip" instead of
\* searching it for "skip"
ApiRow_WrongSentinel(i, row, to, subject, body, idcol, simulate, checkOn, settings, response, smtp) ==
    LET msg == ApiCompose(subject, body, idcol, simulate, row, response)
        inc == Included(idcol, simulate, row, response)
        Res(kind, delivered) ==
            RowDone(i, to, kind, checkOn, "none", simulate,
                    IF simulate THEN NoResponse ELSE response, inc, delivered)
    IN  IF msg.raised THEN Res("Failed", FALSE)
        ELSE IF msg.out.subject = <<"S", "k", "i", "p">> THEN Res("Skipped", FALSE)
        ELSE IF send_email_smtp(settings, smtp).raised THEN Res("Failed", TRUE)
        ELSE Res("Sent", TRUE)

\* ApiSendPage.send_all._worker, one pass of the loop body (app.py 450-461)
ApiRow(i, row, to, subject, body, idcol, simulate, checkOn, settings, response, smtp) ==
    LET msg == ApiCompose(subject, body, idcol, simulate, row, response)
        inc == Included(idcol, simulate, row, response)
        Res(kind, delivered) ==
            RowDone(i, to, kind, checkOn, "none", simulate,
                    IF simulate THEN NoResponse ELSE response, inc, delivered)
    IN  IF msg.raised THEN Res("Failed", FALSE)
        ELSE IF Contains(msg.out.subject, SkipSubject) THEN Res("Skipped", FALSE)
        ELSE IF send_email_smtp(settings, smtp).raised THEN Res("Failed", TRUE)
        ELSE Res("Sent", TRUE)

\* Counted with success += 1 placed before the send, so that a delivery
\* that raises is counted as sent
Counted_BeforeSend(run, res, countSkips) ==
    [run EXCEPT !.idx = res.row,
                !.success = IF res.delivered THEN @ + 1 ELSE @,
                !.skipped = IF countSkips /\ res.kind = "Skipped" THEN @ + 1 ELSE @]

\* Counted without the except clause: a row that fails ends the thread
Counted_Uncaught(run, res, countSkips) ==
    [run EXCEPT !.idx = res.row,
                !.pc = IF res.kind = "Failed" THEN "crashed" ELSE @,
                !.success = IF res.kind = "Sent" THEN @ + 1 ELSE @,
                !.skipped = IF countSkips /\ res.kind = "Skipped" THEN @ + 1 ELSE @]

\* The counters after a row: success += 1 after a send, skipped += 1 in the
\* API worker's skip branch only
Counted(run, res, countSkips) ==
    [run EXCEPT !.idx = res.row,
                !.success = IF res.kind = "Sent" THEN @ + 1 ELSE @,
                !.skipped = IF countSkips /\ res.kind = "Skipped" THEN @ + 1 ELSE @]

\* BaseWorkerRow whose invalid-address branch continues without a line
BaseWorkerRow_SilentSkip(r) ==
    /\ flow \in {"constant", "dynamic"}
    /\ Running(r)
    /\ runs[r].idx < Len(runs[r].rows)
    /\ LET i   == runs[r].idx + 1
           row == runs[r].rows[i]
           to  == row[runs[r].email_col]
       IN  \E validation \in ValidationResponses(to), smtp \in SmtpOutcomes :
             LET res == BaseRow(flow, i, row, to, subject_var, body_txt, check,
                                smtp_settings, validation, smtp)
             IN  /\ runs' = [runs EXCEPT ![r] = Counted(@, res, FALSE)]
                 /\ last' = [res EXCEPT !.run = r]
                 /\ log' = IF res.kind = "Skipped" THEN log
                           ELSE Append(log, OutcomeLine(r, res.kind, i))
    /\ reported' = NoReport
    /\ UNCHANGED <<flow, df, cfgVars>>
    /\ UNCHANGED auxVars

BaseWorkerRow(r) ==
    /\ flow \in {"constant", "dynamic"}
    /\ Running(r)
    /\ runs[r].idx < Len(runs[r].rows)
    /\ LET i   == runs[r].idx + 1
           row == runs[r].rows[i]
           to  == row[runs[r].email_col]
       IN  \E validation \in ValidationResponses(to), smtp \in SmtpOutcomes :
             LET res == BaseRow(flow, i, row, to, subject_var, body_txt, check,
                                smtp_settings, validation, smtp)
             IN  /\ runs' = [runs EXCEPT ![r] = Counted(@, res, FALSE)]
                 /\ last' = [res EXCEPT !.run = r]
                 /\ log' = Append(log, OutcomeLine(r, res.kind, i))
    /\ reported' = NoReport
    /\ UNCHANGED <<flow, df, cfgVars>>
    /\ UNCHANGED auxVars

ApiWorkerRow(r) ==
    /\ flow = "api"
    /\ Running(r)
    /\ runs[r].idx < Len(runs[r].rows)
    /\ LET i   == runs[r].idx + 1
           row == runs[r].rows[i]
           to  == row[runs[r].email_col]
       IN  \E response \in LiveResponses, smtp \in SmtpOutcomes :
             LET res == ApiRow(i, row, to, subject_var, body_txt, id_col_var,
                               simulate_var, check, smtp_settings, response, smtp)
             IN  /\ runs' = [runs EXCEPT ![r] = Counted(@, res, TRUE)]
                 /\ last' = [res EXCEPT !.run = r]
                 /\ log' = Append(log, OutcomeLine(r, res.kind, i))
    /\ reported' = NoReport
    /\ UNCHANGED <<flow, df, cfgVars>>
    /\ UNCHANGED auxVars

\* After the loop: the summary line, and the thread ends
BaseWorkerDone(r) ==
    /\ flow \in {"constant", "dynamic"}
    /\ Running(r)
    /\ runs[r].idx = Len(runs[r].rows)
    /\ log' = Append(log, BaseSummaryLine(r, runs[r].success, runs[r].total))
    /\ runs' = [runs EXCEPT ![r].pc = "done"]
    /\ last' = [NoRow EXCEPT !.run = r]
    /\ reported' = NoReport
    /\ UNCHANGED <<flow, df, cfgVars>>
    /\ UNCHANGED auxVars

ApiWorkerDone(r) ==
    /\ flow = "api"
    /\ Running(r)
    /\ runs[r].idx = Len(runs[r].rows)
    /\ log' = Append(log, ApiSummaryLine(r, runs[r].success, runs[r].skipped, runs[r].total))
    /\ runs' = [runs EXCEPT ![r].pc = "done"]
    /\ last' = [NoRow EXCEPT !.run = r]
    /\ reported' = NoReport
    /\ UNCHANGED <<flow, df, cfgVars>>
    /\ UNCHANGED auxVars

Worker(r) ==
    \/ BaseWorkerRow(r)
    \/ ApiWorkerRow(r)
    \/ BaseWorkerDone(r)
    \/ ApiWorkerDone(r)

(***************************************************************************)
(* The invoking surface: the handlers the user can trigger                 *)
(***************************************************************************)
\* pick_file: a file is loaded, or loading fails and df is reset to None
pick_file ==
    /\ df' \in Datasets \cup {NoDf}
    /\ last' = NoRow
    /\ reported' = NoReport
    /\ UNCHANGED <<flow, cfgVars, runs, log>>
    /\ UNCHANGED auxVars

EditEmailCol ==
    /\ email_col_var' \in EmailColChoices
    /\ last' = NoRow
    /\ reported' = NoReport
    /\ UNCHANGED <<flow, df, subject_var, body_txt, id_col_var, simulate_var, check,
                   smtp_settings, runs, log>>
    /\ UNCHANGED auxVars

EditSubject ==
    /\ subject_var' \in SubjectChoices(flow)
    /\ last' = NoRow
    /\ reported' = NoReport
    /\ UNCHANGED <<flow, df, email_col_var, body_txt, id_col_var, simulate_var, check,
                   smtp_settings, runs, log>>
    /\ UNCHANGED auxVars

\* Sidebar.verify_mail: check follows the switch
verify_mail ==
    /\ check' = ~check
    /\ last' = NoRow
    /\ reported' = NoReport
    /\ UNCHANGED <<flow, df, email_col_var, subject_var, body_txt, id_col_var,
                   simulate_var, smtp_settings, runs, log>>
    /\ UNCHANGED auxVars

ToggleSimulate ==
    /\ flow = "api"
    /\ simulate_var' = ~simulate_var
    /\ last' = NoRow
    /\ reported' = NoReport
    /\ UNCHANGED <<flow, df, email_col_var, subject_var, body_txt, id_col_var, check,
                   smtp_settings, runs, log>>
    /\ UNCHANGED auxVars

\* SMTPSettingsDialog._save writes the dialog's fields into the shared dict
_save ==
    /\ smtp_settings' \in SettingsChoices
    /\ last' = NoRow
    /\ reported' = NoReport
    /\ UNCHANGED <<flow, df, email_col_var, subject_var, body_txt, id_col_var,
                   simulate_var, check, runs, log>>
    /\ UNCHANGED auxVars

(***************************************************************************)
(* The program                                                             *)
(***************************************************************************)
TplIdle ==
    /\ tplIn = <<>>
    /\ tplRow = <<>>
    /\ tplOut = Returned(<<>>)
    /\ tplPc = "idle"

GateIdle ==
    /\ gateIn = [neterr |-> TRUE, status |-> 0, body |-> "notjson", deliverability |-> "missing"]
    /\ gateOut = Raised
    /\ gatePc = "idle"

SimIdle ==
    /\ simId = <<>>
    /\ simOther = <<>>
    /\ simOut = Raised
    /\ simOtherOut = Raised
    /\ simPc = "idle"

\* LogArea.__init__: an empty text widget, disabled; no write under way
LogIdle ==
    /\ widget = [state |-> "disabled", text |-> <<>>]
    /\ writer = [w \in RunIds |-> [pc |-> "idle", n |-> 0]]
    /\ inserted = {}

AuxIdle == TplIdle /\ GateIdle /\ SimIdle /\ LogIdle

Init ==
    /\ flow \in Flows
    /\ df = NoDf
    /\ email_col_var = EmailCol
    /\ subject_var = DefaultSubject(flow)
    /\ body_txt = DefaultBody(flow)
    /\ id_col_var = IdCol
    /\ simulate_var = TRUE
    /\ check = FALSE
    /\ smtp_settings \in {DefaultSettings, FullSettings}
    /\ runs = [r \in RunIds |-> IdleRun]
    /\ last = NoRow
    /\ log = <<>>
    /\ reported = NoReport
    /\ AuxIdle

Next ==
    \/ pick_file
    \/ EditEmailCol
    \/ EditSubject
    \/ verify_mail
    \/ ToggleSimulate
    \/ _save
    \/ BaseSendAll(OneRun)
    \/ ApiSendAll(OneRun)
    \/ \E r \in RunIds : Worker(r)

Spec == Init /\ [][Next]_vars

(***************************************************************************)
(* A configured page: the runs alone, without further edits                *)
(***************************************************************************)
\* A page on which a full sheet is loaded and the settings are complete
InitReady ==
    /\ flow \in Flows
    /\ df = Loaded(AllColumns, Sheet(MaxRows))
    /\ email_col_var = EmailCol
    /\ subject_var \in SubjectChoices(flow)
    /\ body_txt = DefaultBody(flow)
    /\ id_col_var = IdCol
    /\ simulate_var \in (IF flow = "api" THEN BOOLEAN ELSE {TRUE})
    /\ check \in BOOLEAN
    /\ smtp_settings = FullSettings
    /\ runs = [r \in RunIds |-> IdleRun]
    /\ last = NoRow
    /\ log = <<>>
    /\ reported = NoReport
    /\ AuxIdle

\* Send All pressed once, and the worker it starts
NextRun ==
    \/ BaseSendAll(OneRun)
    \/ ApiSendAll(OneRun)
    \/ \E r \in OneRun : Worker(r)

\* The worker thread runs whenever it can: each blocking call returns or
\* raises
FairRun == InitReady /\ [][NextRun]_vars /\ \A r \in OneRun : WF_vars(Worker(r))

\* Send All pressed again and again: overlapping workers
NextOverlap ==
    \/ BaseSendAll(RunIds)
    \/ ApiSendAll(RunIds)
    \/ \E r \in RunIds : Worker(r)

SpecOverlap == InitReady /\ [][NextOverlap]_vars

(***************************************************************************)
(* A run started from the pages' defaults, edited while it is running      *)
(***************************************************************************)
\* A page with a full sheet loaded, complete settings, and everything else
\* as constructed: default subject and body, simulation on, validation off
InitDefaults ==
    /\ flow \in Flows
    /\ df = Loaded(AllColumns, Sheet(MaxRows))
    /\ email_col_var = EmailCol
    /\ subject_var = DefaultSubject(flow)
    /\ body_txt = DefaultBody(flow)
    /\ id_col_var = IdCol
    /\ simulate_var = TRUE
    /\ check = FALSE
    /\ smtp_settings = FullSettings
    /\ runs = [r \in RunIds |-> IdleRun]
    /\ last = NoRow
    /\ log = <<>>
    /\ reported = NoReport
    /\ AuxIdle

\* The user touches the controls only while the worker is running
EditWhileRunning ==
    /\ \E r \in OneRun : Running(r)
    /\ \/ verify_mail
       \/ EditSubject
       \/ ToggleSimulate
       \/ _save

NextEdits ==
    \/ BaseSendAll(OneRun)
    \/ ApiSendAll(OneRun)
    \/ \E r \in OneRun : Worker(r)
    \/ EditWhileRunning

SpecEdits == InitDefaults /\ [][NextEdits]_vars

(***************************************************************************)
(* A sheet in which a name contains the text "skip"                        *)
(***************************************************************************)
\* An odd id, a deliverable address, and the name "skip"
RowS == (EmailCol :> GoodAddr) @@ (IdCol :> <<"1", "0", "3">>) @@ (NameCol :> <<"s", "k", "i", "p">>)

\* A sheet of n rows: RowS, RowA, RowS, ...
SkipSheet(n) == [i \in 1..n |-> IF i % 2 = 1 THEN RowS ELSE RowA]

\* A configured page with that sheet loaded, enrichment simulated
InitSkipNames ==
    /\ flow \in Flows
    /\ df = Loaded(AllColumns, SkipSheet(MaxRows))
    /\ email_col_var = EmailCol
    /\ subject_var \in SubjectChoices(flow)
    /\ body_txt = DefaultBody(flow)
    /\ id_col_var = IdCol
    /\ simulate_var = TRUE
    /\ check \in BOOLEAN
    /\ smtp_settings = FullSettings
    /\ runs = [r \in RunIds |-> IdleRun]
    /\ last = NoRow
    /\ log = <<>>
    /\ reported = NoReport
    /\ AuxIdle

SpecSkipNames == InitSkipNames /\ [][NextRun]_vars

(***************************************************************************)
(* Specification of fill_template as a pure function                       *)
(***************************************************************************)
Templates == SeqsUpTo(TplChars, MaxTplLen)

\* Rows over the one column n: a value, a missing value, no such column
TplRows == { [k \in {<<"n">>} |-> <<"v">>], [k \in {<<"n">>} |-> NaN], [k \in {} |-> NaN] }

\* The pages as constructed, untouched while fill_template is studied alone
MainIdle ==
    /\ flow = "dynamic"
    /\ df = NoDf
    /\ email_col_var = EmailCol
    /\ subject_var = DefaultSubject(flow)
    /\ body_txt = DefaultBody(flow)
    /\ id_col_var = IdCol
    /\ simulate_var = TRUE
    /\ check = FALSE
    /\ smtp_settings = DefaultSettings
    /\ runs = [r \in RunIds |-> IdleRun]
    /\ last = NoRow
    /\ log = <<>>
    /\ reported = NoReport

TplInit ==
    /\ tplIn \in Templates
    /\ tplRow \in TplRows
    /\ tplOut = Returned(<<>>)
    /\ tplPc = "call"
    /\ MainIdle
    /\ GateIdle /\ SimIdle /\ LogIdle

TplCall ==
    /\ tplPc = "call"
    /\ tplOut' = fill_template(tplIn, tplRow)
    /\ tplPc' = "done"
    /\ UNCHANGED <<tplIn, tplRow, mainVars, gateVars, simVars, logVars>>

TplNext == TplCall

SpecTpl == TplInit /\ [][TplNext]_vars

(***************************************************************************)
(* Specification of is_email_valid as a function of the HTTP response      *)
(***************************************************************************)
GateStatuses == {200, 201, 204, 301, 400, 404, 422, 429, 500, 503}

\* The values the deliverability field of a JSON object can carry
GateDeliverabilities == {"missing", "DELIVERABLE", "UNDELIVERABLE", "RISKY", "deliverable"}

\* The HTTP responses requests.get can return: any status, with a body that
\* is not JSON, JSON but not an object, or a JSON object
HttpResponses ==
    { [neterr |-> FALSE, status |-> st, body |-> b, deliverability |-> "missing"] :
          st \in GateStatuses, b \in {"notjson", "nonobject"} }
      \cup { [neterr |-> FALSE, status |-> st, body |-> "object", deliverability |-> d] :
                 st \in GateStatuses, d \in GateDeliverabilities }

\* requests.get raises instead of returning
NoHttpResponse == [neterr |-> TRUE, status |-> 0, body |-> "notjson", deliverability |-> "missing"]

GateInit ==
    /\ gateIn \in HttpResponses \cup {NoHttpResponse}
    /\ gateOut = Raised
    /\ gatePc = "call"
    /\ MainIdle
    /\ TplIdle /\ SimIdle /\ LogIdle

GateCall ==
    /\ gatePc = "call"
    /\ gateOut' = is_email_valid(gateIn)
    /\ gatePc' = "done"
    /\ UNCHANGED <<gateIn, mainVars, tplVars, simVars, logVars>>

GateNext == GateCall

SpecGate == GateInit /\ [][GateNext]_vars

(***************************************************************************)
(* Specification of simulated enrichment: two calls of _fetch_attendance   *)
(***************************************************************************)
IdChars == {"0", "1", "2", "9", "a"}

\* The ids of the two calls: any text up to MaxIdLen characters, the empty
\* cell included
Ids == SeqsUpTo(IdChars, MaxIdLen)

SimInit ==
    /\ simId \in Ids
    /\ simOther \in Ids
    /\ simOut = Raised
    /\ simOtherOut = Raised
    /\ simPc = "first"
    /\ MainIdle
    /\ TplIdle /\ GateIdle /\ LogIdle

SimFirst ==
    /\ simPc = "first"
    /\ simOut' = _fetch_attendance(simId, TRUE, NoResponse)
    /\ simPc' = "second"
    /\ UNCHANGED <<simId, simOther, simOtherOut, mainVars, tplVars, gateVars, logVars>>

SimSecond ==
    /\ simPc = "second"
    /\ simOtherOut' = _fetch_attendance(simOther, TRUE, NoResponse)
    /\ simPc' = "done"
    /\ UNCHANGED <<simId, simOther, simOut, mainVars, tplVars, gateVars, logVars>>

SimNext == SimFirst \/ SimSecond

SpecSim == SimInit /\ [][SimNext]_vars

(***************************************************************************)
(* Specification of LogArea: write from the worker threads, call by call,  *)
(* against the Clear Log button                                            *)
(***************************************************************************)
\* The n-th line thread w writes, and the line clear_log leaves
LogLine(w, n) == [w |-> w, n |-> n]
ClearedLine == [w |-> 0, n |-> 0]

\* Text.insert("end", ...): a disabled text widget ignores it
Insert(wd, line) ==
    IF wd.state = "normal" THEN [wd EXCEPT !.text = Append(@, line)] ELSE wd

\* Text.delete("1.0", "end"): a disabled text widget ignores it
Delete(wd) ==
    IF wd.state = "normal" THEN [wd EXCEPT !.text = <<>>] ELSE wd

Configure(wd, state) == [wd EXCEPT !.state = state]

\* LogArea.write, line 170: self.configure(state="normal")
WriteNormal(w) ==
    /\ writer[w].pc = "idle"
    /\ writer[w].n < MaxWrites
    /\ widget' = Configure(widget, "normal")
    /\ writer' = [writer EXCEPT ![w] = [pc |-> "insert", n |-> @.n + 1]]
    /\ UNCHANGED inserted
    /\ UNCHANGED <<mainVars, tplVars, gateVars, simVars>>

\* line 171: self.insert("end", text + "\n")
WriteInsert(w) ==
    /\ writer[w].pc = "insert"
    /\ widget' = Insert(widget, LogLine(w, writer[w].n))
    /\ inserted' = inserted \cup {LogLine(w, writer[w].n)}
    /\ writer' = [writer EXCEPT ![w].pc = "see"]
    /\ UNCHANGED <<mainVars, tplVars, gateVars, simVars>>

\* line 172: self.see("end")
WriteSee(w) ==
    /\ writer[w].pc = "see"
    /\ writer' = [writer EXCEPT ![w].pc = "disable"]
    /\ UNCHANGED <<widget, inserted>>
    /\ UNCHANGED <<mainVars, tplVars, gateVars, simVars>>

\* line 173: self.configure(state="disabled")
WriteDisabled(w) ==
    /\ writer[w].pc = "disable"
    /\ widget' = Configure(widget, "disabled")
    /\ writer' = [writer EXCEPT ![w].pc = "idle"]
    /\ UNCHANGED inserted
    /\ UNCHANGED <<mainVars, tplVars, gateVars, simVars>>

\* LogArea.clear_log, the command of the Clear Log button: one callback of
\* the main loop
clear_log ==
    /\ widget' = Configure(Insert(Delete(Configure(widget, "normal")), ClearedLine), "disabled")
    /\ inserted' = {}
    /\ UNCHANGED writer
    /\ UNCHANGED <<mainVars, tplVars, gateVars, simVars>>

LogInit ==
    /\ LogIdle
    /\ MainIdle
    /\ TplIdle /\ GateIdle /\ SimIdle

LogNext ==
    \/ \E w \in RunIds : WriteNormal(w)
    \/ \E w \in RunIds : WriteInsert(w)
    \/ \E w \in RunIds : WriteSee(w)
    \/ \E w \in RunIds : WriteDisabled(w)
    \/ clear_log

SpecLog == LogInit /\ [][LogNext]_vars

(***************************************************************************)
(* The claims                                                              *)
(***************************************************************************)
Outcomes == {"Sent", "Skipped", "Failed"}

\* The Outcome lines run r has written, in the order of the log
OutcomeLines(r) ==
    LET Mine(l) == l.run = r /\ l.kind \in Outcomes
    IN  SelectSeq(log, Mine)

SummaryLines(r) ==
    LET Mine(l) == l.run = r /\ l.kind = "Done"
    IN  SelectSeq(log, Mine)

CountOf(r, kind) == Cardinality({i \in 1..Len(log) : log[i].run = r /\ log[i].kind = kind})

\* C1: a run writes exactly one Outcome line per row it has handled, the
\* i-th of them for the i-th row, and once it has ended there is one for
\* every row of the dataset.
C1_OneOutcomePerRowInOrder ==
    \A r \in RunIds :
        LET mine == OutcomeLines(r)
        IN  /\ Len(mine) = runs[r].idx
            /\ \A i \in 1..Len(mine) : mine[i].row = i
            /\ runs[r].pc = "done" => Len(mine) = Len(runs[r].rows)

C1_Witness ==
    \E r \in RunIds :
        /\ runs[r].pc = "done"
        /\ Len(runs[r].rows) = 2
        /\ OutcomeLines(r)[1].kind = "Failed"
        /\ OutcomeLines(r)[2].kind = "Skipped"

\* The preconditions of a send: a dataset is loaded, the configured email
\* column (the entry's text, trimmed) is one of its columns, and none of
\* the four transport settings is empty.
PreconditionsHold ==
    /\ df.loaded
    /\ Strip(email_col_var) \in df.columns
    /\ \A k \in RequiredKeys : smtp_settings[k] # ""

\* C2: a send_all call made while a precondition fails starts no worker,
\* records no line, handles no row and reports exactly one error.
C2_PreconditionFailure ==
    [][ (~PreconditionsHold /\ reported'.called) =>
            /\ reported'.errors = 1
            /\ reported'.started = 0
            /\ runs' = runs
            /\ log' = log
            /\ last' = NoRow ]_vars

C2_Witness ==
    /\ reported.called
    /\ reported.errors = 1
    /\ df.loaded
    /\ Strip(email_col_var) \in df.columns
    /\ smtp_settings["smtp_host"] = ""

\* C3: a run that is running ends, with its summary line written, whatever
\* failed in its rows.
C3_RunCompletes ==
    \A r \in RunIds :
        (runs[r].pc = "running") ~> (runs[r].pc = "done" /\ Len(SummaryLines(r)) = 1)

C3_Witness ==
    \E r \in RunIds :
        /\ runs[r].pc = "done"
        /\ Len(SummaryLines(r)) = 1
        /\ Len(OutcomeLines(r)) = 2
        /\ OutcomeLines(r)[1].kind = "Failed"
        /\ OutcomeLines(r)[2].kind = "Sent"

\* What the gate answers for an address when the service answers
GateVerdict(addr) ==
    is_email_valid([neterr |-> FALSE, status |-> 200, body |-> "object",
                    deliverability |-> Deliverability(addr)]).out

\* C4: in every flow, a row handled while the toggle is on and whose
\* address the gate judges undeliverable is Skipped, and send_email_smtp is
\* not called for it.
C4_UndeliverableSkipped ==
    /\ (last.checkOn /\ last.gate = "False") => (last.kind = "Skipped" /\ ~last.delivered)
    /\ (last.row > 0 /\ last.checkOn /\ GateVerdict(last.to) = "False") => ~last.delivered

\* C5: a row handled while the toggle is on and for which the gate answers
\* Indeterminate (None) goes on to delivery.
C5_IndeterminateFailsOpen ==
    (last.checkOn /\ last.gate = "None") => last.delivered

\* The last character of the id of the row the step handled is an even digit
EvenId(step) ==
    LET row == runs[step.run].rows[step.row]
    IN  /\ IdCol \in DOMAIN row
        /\ row[IdCol] # <<>>
        /\ row[IdCol][Len(row[IdCol])] \in {"0", "2", "4", "6", "8"}

\* C6: in the API flow a row the enrichment excludes (in simulation: an id
\* ending in an even digit) is Skipped, not Failed, and is not delivered.
C6_ExcludedSkipped ==
    (flow = "api" /\ last.row > 0) =>
        /\ last.included = "false" => (last.kind = "Skipped" /\ ~last.delivered)
        /\ (last.simulate /\ EvenId(last)) => (last.kind = "Skipped" /\ ~last.delivered)

C6_Witness ==
    /\ flow = "api"
    /\ last.row > 0
    /\ last.simulate
    /\ EvenId(last)
    /\ last.included = "false"
    /\ last.kind = "Skipped"

\* C8: at most one run is active on the page, so the lines of two runs never
\* interleave in the log.
C8_OneActiveRun ==
    /\ Cardinality({r \in RunIds : runs[r].pc = "running"}) <= 1
    /\ \A i, j, k \in 1..Len(log) :
           (i < j /\ j < k /\ log[i].run = log[k].run) => log[j].run = log[i].run

BadLiveResponse(response) ==
    /\ ~response.neterr
    /\ response.body # "none"
    /\ \/ response.status < 200
       \/ response.status >= 300
       \/ response.body # "object"
       \/ response.absent = "missing"

\* C10: in live mode a row whose enrichment response is not 2xx or is
\* malformed is Failed.
C10_BadResponseFails ==
    (flow = "api" /\ last.row > 0 /\ ~last.simulate /\ BadLiveResponse(last.response))
        => last.kind = "Failed"

\* The verdict C11 gives for a response: None for 422 and for every other
\* status that is not 200, True for 200 with deliverability DELIVERABLE,
\* False for 200 with any other or no deliverability
GateExpected(response) ==
    IF response.status = 422 THEN "None"
    ELSE IF response.status # 200 THEN "None"
    ELSE IF response.body = "object" /\ response.deliverability = "DELIVERABLE" THEN "True"
    ELSE "False"

\* C11: for every HTTP response is_email_valid does not raise and returns
\* None for 422 and any other non-200 status, True for 200 with
\* deliverability DELIVERABLE, False for 200 with any other or no
\* deliverability.
C11_GateMapping ==
    (gatePc = "done" /\ ~gateIn.neterr) =>
        /\ ~gateOut.raised
        /\ gateOut.out = GateExpected(gateIn)

OddDigits == {"1", "3", "5", "7", "9"}
EvenDigits == {"0", "2", "4", "6", "8"}

LastChar(id) == id[Len(id)]

\* C12: simulated enrichment depends on the last character of the id only:
\* an odd digit gives absent = true with the date 2025-08-23, an even digit
\* gives absent = false, and two calls whose ids are the same or end in the
\* same character return the same dict.
C12_SimulatedByLastChar ==
    simPc = "done" =>
        /\ ~simOut.raised /\ ~simOtherOut.raised
        /\ (simId # <<>> /\ LastChar(simId) \in OddDigits) =>
               /\ simOut.out.absent = "true"
               /\ simOut.out.fields[DateKey] = SimDate
        /\ (simId # <<>> /\ LastChar(simId) \in EvenDigits) => simOut.out.absent = "false"
        /\ simId = simOther => simOut = simOtherOut
        /\ (simId # <<>> /\ simOther # <<>> /\ LastChar(simId) = LastChar(simOther))
               => simOut = simOtherOut

C12_Witness ==
    /\ simPc = "done"
    /\ simId # simOther
    /\ Len(simId) = 2 /\ simOther # <<>>
    /\ simId[1] = "a"
    /\ LastChar(simId) = "2" /\ LastChar(simOther) = "2"
    /\ simOut.out.absent = "false"
    /\ simOut = simOtherOut

\* C13: a run started with the pages' defaults (validation off, simulation
\* on, the default subject and body, complete settings) handles every row
\* with that configuration, whatever is edited meanwhile: the gate is never
\* asked, enrichment stays simulated, and no row fails before delivery is
\* attempted (composing with the defaults cannot raise).
C13_ConfigFrozen ==
    last.row > 0 =>
        /\ last.gate = "none"
        /\ flow = "api" => last.simulate
        /\ ~(last.kind = "Failed" /\ ~last.delivered)

\* C14: in the API flow a row is Skipped exactly when its enrichment result
\* has absent = false; a row that enrichment includes is not Skipped,
\* whatever its rendered subject says, and unless composing it raised,
\* delivery is attempted for it.
C14_SkippedIffExcluded ==
    (flow = "api" /\ last.row > 0) =>
        /\ last.kind = "Skipped" <=> last.included = "false"
        /\ (last.included = "true" /\ last.kind # "Failed") => last.delivered

InText(line) == \E i \in 1..Len(widget.text) : widget.text[i] = line

\* C15: every line whose insert was issued since the last clear is in the
\* widget, and when no write is under way the widget is disabled.
C15_WritesAtomic ==
    /\ \A line \in inserted : InText(line)
    /\ (\A w \in RunIds : writer[w].pc = "idle") => widget.state = "disabled"

\* C7: fill_template never raises, whatever the template and the row.
C7_NeverRaises == tplPc = "done" => ~tplOut.raised
====
